---------------------------- MODULE Spec2Model ----------------------------
(***************************************************************************)
(* The REST layer of src/index.js over the customer and orders tables:     *)
(* the express-validator rule chains, and every route handler of the       *)
(* router split at its awaits (one action per database round trip).        *)
(*                                                                         *)
(* Strings are sequences of one-character strings, so that lengths, trims  *)
(* and character classes are computed.  The database stores and compares   *)
(* values verbatim (the schema is not part of the repository), and every   *)
(* database call may fail.                                                 *)
(*                                                                         *)
(* Record constructors list their fields in the order TLC normalises them  *)
(* to (the order in which the field names first occur in the module), so   *)
(* that two TLC workers normalising one record value do not disturb each   *)
(* other.                                                                  *)
(***************************************************************************)
EXTENDS Integers, Sequences, FiniteSets, TLC

VARIABLES customer, orders, req, started, up

vars == <<customer, orders, req, started, up>>

\* ------------------------------------------------------------ bounds
\* Total number of requests the clients send in one behaviour.
MaxRequests == 3

\* ------------------------------------------------------------ strings
Digits == {"0", "1", "2", "3", "4", "5", "6", "7", "8", "9"}

\* JavaScript null / undefined, a value that is no string.
Null == <<"null">>

AllIn(str, set) == \A i \in DOMAIN str : str[i] \in set

DigitVal(ch) == CASE ch = "0" -> 0 [] ch = "1" -> 1 [] ch = "2" -> 2 [] ch = "3" -> 3
                  [] ch = "4" -> 4 [] ch = "5" -> 5 [] ch = "6" -> 6 [] ch = "7" -> 7
                  [] ch = "8" -> 8 [] ch = "9" -> 9

\* express-validator's toString of a field: undefined becomes ''.
FieldString(value) == IF value = Null THEN <<>> ELSE value

\* ------------------------------------------------------------ validator.js rules, as the chains configure them
\* isLength({min, max})
IsLength(str, min, max) == Len(str) >= min /\ Len(str) <= max

\* isNumeric({no_symbols: true}): /^[0-9]+$/
IsNumericNoSymbols(str) == Len(str) >= 1 /\ AllIn(str, Digits)

\* the unsigned part of isNumeric(): ([0-9]*[.])?[0-9]+
IsUnsignedNumeric(str) ==
    \/ IsNumericNoSymbols(str)
    \/ \E k \in DOMAIN str :
          /\ str[k] = "."
          /\ AllIn(SubSeq(str, 1, k - 1), Digits)
          /\ IsNumericNoSymbols(SubSeq(str, k + 1, Len(str)))

\* Mutant of IsNumeric: the rule with {no_symbols: true}, as on the body's ord_num.
IsNumeric_m(str) == IsNumericNoSymbols(str)

\* isNumeric(), symbols allowed (the default): /^[+-]?([0-9]*[.])?[0-9]+$/
IsNumeric(str) ==
    \/ IsUnsignedNumeric(str)
    \/ Len(str) >= 1 /\ str[1] \in {"+", "-"} /\ IsUnsignedNumeric(Tail(str))

\* the groups of a whole amount written with thousands separators: (,\d{3})*
RECURSIVE IsThousands(_)
IsThousands(str) ==
    \/ str = <<>>
    \/ /\ Len(str) >= 4
       /\ str[1] = ","
       /\ AllIn(SubSeq(str, 2, 4), Digits)
       /\ IsThousands(SubSeq(str, 5, Len(str)))

\* the whole amount of isCurrency: (0|[1-9]\d*|[1-9]\d{0,2}(,\d{3})*)?
IsWholeAmount(str) ==
    \/ str = <<>>
    \/ str = <<"0">>
    \/ /\ str[1] \in Digits \ {"0"}
       /\ \/ AllIn(str, Digits)
          \/ \E k \in 1..3 :
                /\ k <= Len(str)
                /\ AllIn(SubSeq(str, 1, k), Digits)
                /\ IsThousands(SubSeq(str, k + 1, Len(str)))

\* isCurrency({symbol: '', require_decimal: true, allow_negatives: false}):
\* an optional whole amount, then a '.' and exactly two digits.
IsCurrency(str) ==
    /\ Len(str) >= 3
    /\ str[Len(str) - 2] = "."
    /\ AllIn(SubSeq(str, Len(str) - 1, Len(str)), Digits)
    /\ IsWholeAmount(SubSeq(str, 1, Len(str) - 3))

Num2(str, i) == 10 * DigitVal(str[i]) + DigitVal(str[i + 1])

IsLeapYear(y) == (y % 4 = 0 /\ y % 100 # 0) \/ y % 400 = 0

DaysInMonth(y, m) ==
    IF m = 2 THEN (IF IsLeapYear(y) THEN 29 ELSE 28)
    ELSE IF m \in {4, 6, 9, 11} THEN 30 ELSE 31

\* isISO8601({strict: true}) on a calendar date YYYY-MM-DD (the only date
\* form the requests of this model carry): the pattern, then the strict
\* check that the day exists in that month.
IsISO8601(str) ==
    /\ Len(str) = 10
    /\ str[5] = "-" /\ str[8] = "-"
    /\ AllIn(SubSeq(str, 1, 4), Digits)
    /\ AllIn(SubSeq(str, 6, 7), Digits)
    /\ AllIn(SubSeq(str, 9, 10), Digits)
    /\ LET y == 100 * Num2(str, 1) + Num2(str, 3)
           m == Num2(str, 6)
           d == Num2(str, 9)
       IN  m >= 1 /\ m <= 12 /\ d >= 1 /\ d <= DaysInMonth(y, m)

\* trim(): whitespace removed from both ends.
RECURSIVE LTrim(_)
LTrim(str) == IF str # <<>> /\ Head(str) = " " THEN LTrim(Tail(str)) ELSE str

RECURSIVE RTrim(_)
RTrim(str) ==
    IF str # <<>> /\ str[Len(str)] = " " THEN RTrim(SubSeq(str, 1, Len(str) - 1)) ELSE str

Trim(str) == LTrim(RTrim(str))

\* ------------------------------------------------------------ request bodies
\* A JSON object is the sequence of its <<key, value>> pairs, in the order
\* the keys appear in the body (the order Object.keys / Object.values see).
Keys(body) == {body[i][1] : i \in DOMAIN body}

Field(body, key) ==
    IF key \in Keys(body)
    THEN body[CHOOSE i \in DOMAIN body : body[i][1] = key][2]
    ELSE Null

ObjectKeys(body) == [i \in DOMAIN body |-> body[i][1]]

ObjectValues(body) == [i \in DOMAIN body |-> body[i][2]]

\* The fields whose chain ends in .trim(): the sanitizer writes the trimmed
\* value back into req.body, the key keeps its place.
TrimmedFields == {"agent_code", "ord_description"}

Sanitized(body) ==
    [i \in DOMAIN body |->
        <<body[i][1], IF body[i][1] \in TrimmedFields THEN Trim(body[i][2]) ELSE body[i][2]>>]

\* ------------------------------------------------------------ validation chains
Violation(param, value) == [value |-> value, param |-> param, msg |-> "Invalid value"]

\* One validator of a chain: an error entry when it fails.
Check(param, value, passes) == IF passes THEN <<>> ELSE <<Violation(param, value)>>

\* param('id').isLength({min: 6, max: 6})
IdRule(id) == Check("id", id, IsLength(id, 6, 6))

\* param('order_num').isNumeric()
OrderNumRule(order_num) == Check("order_num", order_num, IsNumeric(order_num))

\* .optional(): the chain is skipped for a field that is absent.
Skipped(body, key, optional) == optional /\ Field(body, key) = Null

\* body('ord_num').isLength({min: 6, max: 6}).isNumeric({no_symbols: true})
OrdNumRule(body, optional) ==
    LET v == Field(body, "ord_num") IN
    IF Skipped(body, "ord_num", optional) THEN <<>>
    ELSE Check("ord_num", v, IsLength(FieldString(v), 6, 6))
         \o Check("ord_num", v, IsNumericNoSymbols(FieldString(v)))

\* body('ord_amount').isCurrency(...), body('advance_amount').isCurrency(...)
AmountRule(body, key, optional) ==
    LET v == Field(body, key) IN
    IF Skipped(body, key, optional) THEN <<>>
    ELSE Check(key, v, IsCurrency(FieldString(v)))

\* body('ord_date').isISO8601({strict: true})
OrdDateRule(body, optional) ==
    LET v == Field(body, "ord_date") IN
    IF Skipped(body, "ord_date", optional) THEN <<>>
    ELSE Check("ord_date", v, IsISO8601(FieldString(v)))

\* body('agent_code').isLength({min: 4, max: 4}).trim()
AgentCodeRule(body, optional) ==
    LET v == Field(body, "agent_code") IN
    IF Skipped(body, "agent_code", optional) THEN <<>>
    ELSE Check("agent_code", v, IsLength(FieldString(v), 4, 4))

\* body('ord_description').isLength({min: 1, max: 60}).trim()
OrdDescriptionRule(body, optional) ==
    LET v == Field(body, "ord_description") IN
    IF Skipped(body, "ord_description", optional) THEN <<>>
    ELSE Check("ord_description", v, IsLength(FieldString(v), 1, 60))

BodyRules(body, optional) ==
    OrdNumRule(body, optional) \o AmountRule(body, "ord_amount", optional)
    \o AmountRule(body, "advance_amount", optional) \o OrdDateRule(body, optional)
    \o AgentCodeRule(body, optional) \o OrdDescriptionRule(body, optional)

\* The rule chains each route declares, in the order they are declared.
ListCustomersRules(r) == <<>>
GetCustomerRules(r) == IdRule(r.id)
ListOrdersRules(r) == IdRule(r.id)
PostOrderRules(r) == IdRule(r.id) \o BodyRules(r.body, FALSE)
GetOrderRules(r) == IdRule(r.id) \o OrderNumRule(r.order_num)
PutOrderRules(r) == IdRule(r.id) \o OrderNumRule(r.order_num) \o BodyRules(r.body, FALSE)
PatchOrderRules(r) == IdRule(r.id) \o OrderNumRule(r.order_num) \o BodyRules(r.body, TRUE)
DeleteOrderRules(r) == IdRule(r.id) \o OrderNumRule(r.order_num)

\* myValidationResult(req).array()
ValidationErrors(r) ==
    CASE r.route = "listCustomers" -> ListCustomersRules(r)
      [] r.route = "getCustomer"   -> GetCustomerRules(r)
      [] r.route = "listOrders"    -> ListOrdersRules(r)
      [] r.route = "postOrder"     -> PostOrderRules(r)
      [] r.route = "getOrder"      -> GetOrderRules(r)
      [] r.route = "putOrder"      -> PutOrderRules(r)
      [] r.route = "patchOrder"    -> PatchOrderRules(r)
      [] r.route = "deleteOrder"   -> DeleteOrderRules(r)

\* Mutant of Rejects: answers 400 only when several rules are broken.
Rejects_m(errors) == Len(errors) > 1

\* The chains are middleware: they have run when the handler starts.
\* if (!errors.isEmpty()) return res.status(400)...
Rejects(errors) == errors # <<>>

\* ------------------------------------------------------------ the tables and the statements
Columns == <<"ord_num", "ord_amount", "advance_amount", "ord_date", "agent_code",
             "ord_description", "cust_code">>

ColumnSet == {Columns[i] : i \in DOMAIN Columns}

\* SELECT * FROM customer WHERE cust_code = ?
SelectCustomer(tbl, id) == SelectSeq(tbl, LAMBDA row : row.cust_code = id)

\* SELECT COUNT(*) AS `exists` FROM customer WHERE cust_code = ?
CountCustomer(tbl, id) == Len(SelectCustomer(tbl, id))

\* SELECT * FROM orders WHERE cust_code = ?
SelectOrders(tbl, id) == SelectSeq(tbl, LAMBDA row : row.cust_code = id)

\* SELECT COUNT(*) AS `exists` FROM orders WHERE ord_num = ?
CountOrdNum(tbl, ord_num) == Len(SelectSeq(tbl, LAMBDA row : row.ord_num = ord_num))

\* Mutant of Matches: the WHERE clause without the customer code.
Matches_m(row, id, order_num) == row.ord_num = order_num

\* ... WHERE cust_code = ? AND ord_num = ?
Matches(row, id, order_num) == row.cust_code = id /\ row.ord_num = order_num

\* SELECT * FROM orders WHERE cust_code = ? AND ord_num = ?
SelectOrder(tbl, id, order_num) == SelectSeq(tbl, LAMBDA row : Matches(row, id, order_num))

\* SELECT COUNT(*) AS `exists` FROM orders WHERE cust_code = ? AND ord_num = ?
CountOrder(tbl, id, order_num) == Len(SelectOrder(tbl, id, order_num))

\* INSERT INTO orders (<Columns>) VALUES (?, ?, ?, ?, ?, ?, ?): the values
\* are bound to the columns by position; any other number of values is an error.
InsertAccepts(values) == Len(values) = Len(Columns)

InsertOrder(tbl, values) ==
    Append(tbl, [col \in ColumnSet |-> values[CHOOSE i \in DOMAIN Columns : Columns[i] = col]])

\* UPDATE orders SET <parts[1]> = ?, ... WHERE cust_code = ? AND ord_num = ?:
\* data holds one value per part, then the two WHERE bindings.  No part at
\* all, or a part that names no column, is an error.
UpdateAccepts(parts) ==
    /\ parts # <<>>
    /\ \A i \in DOMAIN parts : parts[i] \in ColumnSet

SetColumns(row, parts, data) ==
    [col \in ColumnSet |->
        IF \E i \in DOMAIN parts : parts[i] = col
        THEN data[CHOOSE i \in DOMAIN parts :
                     parts[i] = col /\ \A j \in DOMAIN parts : parts[j] = col => j <= i]
        ELSE row[col]]

UpdateOrders(tbl, parts, data) ==
    [i \in DOMAIN tbl |->
        IF Matches(tbl[i], data[Len(parts) + 1], data[Len(parts) + 2])
        THEN SetColumns(tbl[i], parts, data)
        ELSE tbl[i]]

\* DELETE FROM orders WHERE cust_code = ? AND ord_num = ?
DeleteOrders(tbl, id, order_num) == SelectSeq(tbl, LAMBDA row : ~Matches(row, id, order_num))

\* ------------------------------------------------------------ the requests the clients send
C00001 == <<"C", "0", "0", "0", "0", "1">>
C00002 == <<"C", "0", "0", "0", "0", "2">>
C00009 == <<"C", "0", "0", "0", "0", "9">>
C01 == <<"C", "0", "1">>

N200100 == <<"2", "0", "0", "1", "0", "0">>
N200101 == <<"2", "0", "0", "1", "0", "1">>
N200102 == <<"2", "0", "0", "1", "0", "2">>
NPlus1 == <<"+", "1">>
NMinus1p5 == <<"-", "1", ".", "5">>
N20010a == <<"2", "0", "0", "1", "0", "a">>

Amount10 == <<"1", "0", ".", "0", "0">>
Amount5 == <<"5", ".", "0", "0">>
Amount7p5 == <<"7", ".", "5", "0">>
AmountNeg == <<"-", "5", ".", "0", "0">>
Date080108 == <<"2", "0", "0", "8", "-", "0", "1", "-", "0", "8">>
DateFeb30 == <<"2", "0", "0", "8", "-", "0", "2", "-", "3", "0">>
AgentA001 == <<"A", "0", "0", "1">>
AgentA1Padded == <<"A", "1", " ", " ">>
AgentA12 == <<"A", "1", "2">>
DescSOD == <<"S", "O", "D">>
DescPadded == <<" ", "u", "p", " ">>

OrderBody(ord_num, agent_code, ord_description) ==
    << <<"ord_num", ord_num>>, <<"ord_amount", Amount10>>, <<"advance_amount", Amount5>>,
       <<"ord_date", Date080108>>, <<"agent_code", agent_code>>,
       <<"ord_description", ord_description>> >>

\* The order number of an order that exists (for another customer).
BodyExisting == OrderBody(N200101, AgentA001, DescSOD)
\* A new order, with padded fields.
BodyNew == OrderBody(N200102, AgentA1Padded, DescPadded)
\* The same kind of order with ord_amount written before ord_num.
BodySwapped ==
    << <<"ord_amount", Amount10>>, <<"ord_num", N200102>>, <<"advance_amount", Amount5>>,
       <<"ord_date", Date080108>>, <<"agent_code", AgentA001>>, <<"ord_description", DescSOD>> >>
\* A body every field of which breaks its rule.
BodyInvalid ==
    << <<"ord_num", N20010a>>, <<"ord_amount", AmountNeg>>, <<"advance_amount", <<"5">> >>,
       <<"ord_date", DateFeb30>>, <<"agent_code", AgentA12>>, <<"ord_description", <<>> >> >>
\* A body with one field only.
BodyMissing == << <<"ord_num", N200102>> >>

FullBodies == {BodyExisting, BodyNew, BodySwapped, BodyInvalid, BodyMissing}

PatchDescription == << <<"ord_description", DescPadded>> >>
PatchOrdNum == << <<"ord_num", N200101>> >>
PatchTwo == << <<"agent_code", AgentA001>>, <<"ord_amount", Amount7p5>> >>
PatchInvalid == << <<"agent_code", AgentA12>> >>
PatchEmpty == <<>>

PatchBodies == {PatchDescription, PatchOrdNum, PatchTwo, PatchInvalid, PatchEmpty}

Ids == {C00001, C00009, C01}

\* <<id, order_num>> of the order routes.
Paths ==
    {<<C00001, N200100>>, <<C00001, N200101>>, <<C00001, N200102>>,
     <<C01, N200100>>, <<C00001, NPlus1>>, <<C00001, NMinus1p5>>, <<C00001, N20010a>>}

Request(route, id, order_num, body) ==
    [body |-> body, id |-> id, order_num |-> order_num, route |-> route]

\* What the first client sends.
PostRequests ==
    {Request("postOrder", C00001, Null, b) : b \in FullBodies}
    \cup {Request("postOrder", C00009, Null, BodyExisting),
          Request("postOrder", C01, Null, BodyNew)}

PutRequests ==
    {Request("putOrder", p[1], p[2], BodyExisting) : p \in Paths}
    \cup {Request("putOrder", C00001, N200100, b) : b \in FullBodies}

PatchRequests ==
    {Request("patchOrder", p[1], p[2], PatchDescription) : p \in Paths}
    \cup {Request("patchOrder", C00001, N200100, b) : b \in PatchBodies}
    \cup {Request("patchOrder", C00001, N200101, PatchTwo)}

\* What the second client sends at the same time: the writes that race.
RacingRequests ==
    {Request("deleteOrder", C00001, N200100, <<>>),
     Request("postOrder", C00001, Null, BodyNew)}

Clients == {"a", "b"}

Sends(c, r) == c = "a" \/ r \in RacingRequests

\* ------------------------------------------------------------ state
OrderRow(ord_num, cust_code) ==
    [cust_code |-> cust_code, ord_num |-> ord_num, agent_code |-> AgentA001,
     ord_description |-> DescSOD, ord_amount |-> Amount10, advance_amount |-> Amount5,
     ord_date |-> Date080108]

NoRequest ==
    [body |-> <<>>, id |-> Null, order_num |-> Null, route |-> "none", errors |-> <<>>,
     pc |-> "idle", conn |-> FALSE, results |-> -1, stmts |-> {}, dbError |-> FALSE,
     status |-> 0, location |-> Null, rows |-> <<>>]

Init ==
    /\ customer = << [cust_code |-> C00001], [cust_code |-> C00002] >>
    /\ orders = << OrderRow(N200100, C00001), OrderRow(N200101, C00002) >>
    /\ req = [c \in Clients |-> NoRequest]
    /\ started = 0
    /\ up = TRUE

\* The handler has returned (or died) and the client may send again.
Finished == {"idle", "done", "unhandled"}

\* ------------------------------------------------------------ responses
\* res.status(400).json({ errors: errors.array() })
BadRequest(slot, errors) == [slot EXCEPT !.pc = "done", !.status = 400, !.errors = errors]

\* handleError(res, e.message)
HandleError(slot, message) ==
    [slot EXCEPT !.pc = "done", !.status = 500, !.dbError = TRUE,
                 !.errors = << [value |-> Null, param |-> Null, msg |-> message] >>]

\* res.json(results)
Json(slot, results) == [slot EXCEPT !.pc = "done", !.status = 200, !.rows = results]

\* res.status(404).json()
NotFound(slot) == [slot EXCEPT !.pc = "done", !.status = 404]

\* res.status(204).json()
NoContent(slot) == [slot EXCEPT !.pc = "done", !.status = 204]

\* res.redirect(303, `/customers/${req.params.id}/orders/${req.body.ord_num}`)
Redirect(slot, id, ord_num) ==
    [slot EXCEPT !.pc = "done", !.status = 303,
                 !.location = <<"customers", id, "orders", ord_num>>]

\* A statement goes to the database over the request's connection.
Issued(slot, stmt) == [slot EXCEPT !.stmts = @ \cup {stmt}]

\* req.body as the handler reads it, after the sanitizers.
ReqBody(slot) == Sanitized(slot.body)

\* ------------------------------------------------------------ handler entry
\* The chains run, then the handler: 400 on any violation, else on to connect().
Enter(c, r) ==
    /\ up
    /\ req[c].pc \in Finished
    /\ started < MaxRequests
    /\ Sends(c, r)
    /\ LET slot == [NoRequest EXCEPT !.route = r.route, !.id = r.id,
                                     !.order_num = r.order_num, !.body = r.body]
           errors == ValidationErrors(r)
       IN  req' = [req EXCEPT ![c] = IF Rejects(errors) THEN BadRequest(slot, errors)
                                     ELSE [slot EXCEPT !.pc = "connect"]]
    /\ started' = started + 1
    /\ UNCHANGED <<customer, orders, up>>

ListCustomers(c) == Enter(c, Request("listCustomers", Null, Null, <<>>))

GetCustomer(c) == \E id \in Ids : Enter(c, Request("getCustomer", id, Null, <<>>))

ListOrders(c) == \E id \in Ids : Enter(c, Request("listOrders", id, Null, <<>>))

PostOrder(c) == \E r \in PostRequests : Enter(c, r)

GetOrder(c) == \E p \in Paths : Enter(c, Request("getOrder", p[1], p[2], <<>>))

PutOrder(c) == \E r \in PutRequests : Enter(c, r)

PatchOrder(c) == \E r \in PatchRequests : Enter(c, r)

DeleteOrder(c) == \E p \in Paths : Enter(c, Request("deleteOrder", p[1], p[2], <<>>))

\* ------------------------------------------------------------ the awaits
\* The first statement of each route.
FirstStatement(route) ==
    CASE route \in {"listCustomers", "getCustomer", "listOrders", "getOrder"} -> "select"
      [] route = "postOrder" -> "customerCheck"
      [] route \in {"putOrder", "patchOrder", "deleteOrder"} -> "orderCheck"

\* const conn = await connect(): inside the try of every handler.
Connect(c) ==
    /\ up
    /\ req[c].pc = "connect"
    /\ \E ok \in BOOLEAN :
          req' = [req EXCEPT ![c] =
                     IF ok THEN [@ EXCEPT !.conn = TRUE, !.pc = FirstStatement(req[c].route)]
                     ELSE HandleError(@, "connect failed")]
    /\ UNCHANGED <<customer, orders, started, up>>

\* A read: conn.query(...).then(results => res.json(results)).catch(handleError).
Read(c, route, results) ==
    /\ up
    /\ req[c].pc = "select"
    /\ req[c].route = route
    /\ \E ok \in BOOLEAN :
          req' = [req EXCEPT ![c] =
                     IF ok THEN Json(Issued(@, "select"), results)
                     ELSE HandleError(Issued(@, "select"), "query failed")]
    /\ UNCHANGED <<customer, orders, started, up>>

ListCustomersQuery(c) == Read(c, "listCustomers", customer)

GetCustomerQuery(c) == Read(c, "getCustomer", SelectCustomer(customer, req[c].id))

ListOrdersQuery(c) == Read(c, "listOrders", SelectOrders(orders, req[c].id))

GetOrderQuery(c) == Read(c, "getOrder", SelectOrder(orders, req[c].id, req[c].order_num))

\* ---- POST /customers/:id/orders
\* Mutant of CustomerMissing: the comparison of the order-number check.
CustomerMissing_m(results) == results = 1

\* if (results[0].exists === 0) return res.status(404).json()
CustomerMissing(results) == results = 0

PostCustomerCheck(c) ==
    /\ up
    /\ req[c].pc = "customerCheck"
    /\ req[c].route = "postOrder"
    /\ \E ok \in BOOLEAN :
          LET slot == Issued(req[c], "count_customer")
              results == CountCustomer(customer, slot.id)
          IN  req' = [req EXCEPT ![c] =
                         IF ~ok THEN HandleError(slot, "query failed")
                         ELSE IF CustomerMissing(results)
                              THEN NotFound([slot EXCEPT !.results = results])
                              ELSE [slot EXCEPT !.results = results, !.pc = "ordNumCheck"]]
    /\ UNCHANGED <<customer, orders, started, up>>

\* Mutant of AlreadyEntered: the comparison of the customer check.
AlreadyEntered_m(results) == results = 0

\* if (results[0].exists === 1) return res.redirect(303, ...)
AlreadyEntered(results) == results = 1

PostOrdNumCheck(c) ==
    /\ up
    /\ req[c].pc = "ordNumCheck"
    /\ \E ok \in BOOLEAN :
          LET slot == Issued(req[c], "count_ord_num")
              ord_num == Field(ReqBody(slot), "ord_num")
              results == CountOrdNum(orders, ord_num)
          IN  req' = [req EXCEPT ![c] =
                         IF ~ok THEN HandleError(slot, "query failed")
                         ELSE IF AlreadyEntered(results)
                              THEN Redirect([slot EXCEPT !.results = results], slot.id, ord_num)
                              ELSE [slot EXCEPT !.results = results, !.pc = "insert"]]
    /\ UNCHANGED <<customer, orders, started, up>>

\* const reqBody = Object.values(req.body); reqBody.push(req.params.id)
InsertValues(slot) == Append(ObjectValues(ReqBody(slot)), slot.id)

\* conn.query(INSERT ..., reqBody).then(() => res.redirect(303, ...)): not
\* awaited and without a catch, so a rejection reaches neither the try nor
\* handleError.  The request is then never answered, and the process either
\* goes on or is ended by the unhandled rejection.
PostInsert(c) ==
    /\ up
    /\ req[c].pc = "insert"
    /\ LET slot == Issued(req[c], "insert")
           values == InsertValues(slot)
       IN  \E ok \in BOOLEAN, exits \in BOOLEAN :
              IF ok /\ InsertAccepts(values)
              THEN /\ ~exits
                   /\ orders' = InsertOrder(orders, values)
                   /\ req' = [req EXCEPT ![c] =
                                 Redirect(slot, slot.id, Field(ReqBody(slot), "ord_num"))]
                   /\ up' = up
              ELSE /\ orders' = orders
                   /\ req' = [req EXCEPT ![c] = [slot EXCEPT !.pc = "unhandled", !.dbError = TRUE]]
                   /\ up' = ~exits
    /\ UNCHANGED <<customer, started>>

\* ---- PUT, PATCH, DELETE /customers/:id/orders/:order_num
\* Mutant of OrderMissing: the comparison of the POST's order-number check.
OrderMissing_m(results) == results = 1

\* if (results[0].exists === 0) return res.status(404).json()
OrderMissing(results) == results = 0

\* Verify if the order exists
OrderCheck(c, route, next) ==
    /\ up
    /\ req[c].pc = "orderCheck"
    /\ req[c].route = route
    /\ \E ok \in BOOLEAN :
          LET slot == Issued(req[c], "count_order")
              results == CountOrder(orders, slot.id, slot.order_num)
          IN  req' = [req EXCEPT ![c] =
                         IF ~ok THEN HandleError(slot, "query failed")
                         ELSE IF OrderMissing(results)
                              THEN NotFound([slot EXCEPT !.results = results])
                              ELSE [slot EXCEPT !.results = results, !.pc = next]]
    /\ UNCHANGED <<customer, orders, started, up>>

PutOrderCheck(c) == OrderCheck(c, "putOrder", "update")

PatchOrderCheck(c) == OrderCheck(c, "patchOrder", "update")

DeleteOrderCheck(c) == OrderCheck(c, "deleteOrder", "delete")

\* An awaited write inside the try: 204, or handleError on a rejection.
Write(c, stmt, accepted, table) ==
    /\ \E ok \in BOOLEAN :
          IF ok /\ accepted
          THEN /\ orders' = table
               /\ req' = [req EXCEPT ![c] = NoContent(Issued(@, stmt))]
          ELSE /\ orders' = orders
               /\ req' = [req EXCEPT ![c] = HandleError(Issued(@, stmt), "query failed")]
    /\ UNCHANGED <<customer, started, up>>

\* UPDATE orders SET ord_num = ?, ord_amount = ?, ... with the six body fields by name.
PutParts == SubSeq(Columns, 1, 6)

PutData(slot) ==
    [i \in 1..6 |-> Field(ReqBody(slot), PutParts[i])] \o <<slot.id, slot.order_num>>

PutOrderUpdate(c) ==
    /\ up
    /\ req[c].pc = "update"
    /\ req[c].route = "putOrder"
    /\ Write(c, "update", UpdateAccepts(PutParts), UpdateOrders(orders, PutParts, PutData(req[c])))

\* for (const key of Object.keys(req.body)) { parts.push(key); data.push(value) }
PatchParts(slot) == ObjectKeys(ReqBody(slot))

PatchData(slot) == ObjectValues(ReqBody(slot)) \o <<slot.id, slot.order_num>>

PatchOrderUpdate(c) ==
    /\ up
    /\ req[c].pc = "update"
    /\ req[c].route = "patchOrder"
    /\ Write(c, "update", UpdateAccepts(PatchParts(req[c])),
             UpdateOrders(orders, PatchParts(req[c]), PatchData(req[c])))

DeleteOrderDelete(c) ==
    /\ up
    /\ req[c].pc = "delete"
    /\ req[c].route = "deleteOrder"
    /\ Write(c, "delete", TRUE, DeleteOrders(orders, req[c].id, req[c].order_num))

\* ------------------------------------------------------------ specification
Next ==
    \E c \in Clients :
        \/ ListCustomers(c)
        \/ GetCustomer(c)
        \/ ListOrders(c)
        \/ PostOrder(c)
        \/ GetOrder(c)
        \/ PutOrder(c)
        \/ PatchOrder(c)
        \/ DeleteOrder(c)
        \/ Connect(c)
        \/ ListCustomersQuery(c)
        \/ GetCustomerQuery(c)
        \/ ListOrdersQuery(c)
        \/ GetOrderQuery(c)
        \/ PostCustomerCheck(c)
        \/ PostOrdNumCheck(c)
        \/ PostInsert(c)
        \/ PutOrderCheck(c)
        \/ PatchOrderCheck(c)
        \/ DeleteOrderCheck(c)
        \/ PutOrderUpdate(c)
        \/ PatchOrderUpdate(c)
        \/ DeleteOrderDelete(c)

Spec == Init /\ [][Next]_vars

\* ------------------------------------------------------------ properties
OrderRoutes == {"getOrder", "putOrder", "patchOrder", "deleteOrder"}

MutatingRoutes == {"putOrder", "patchOrder", "deleteOrder"}

OrderFields == {"ord_num", "ord_amount", "advance_amount", "ord_date", "agent_code",
                "ord_description"}

\* The value submitted for a field, trimmed where the field is a trimmed one.
Submitted(body, key) ==
    IF key \in {"agent_code", "ord_description"} THEN Trim(Field(body, key)) ELSE Field(body, key)

\* `/customers/${id}/orders/${ord_num}`
OrderResource(id, ord_num) == <<"customers", id, "orders", ord_num>>

\* Client c takes the step that leaves pc.
Leaves(c, pc) == req[c].pc = pc /\ req'[c].pc # pc

\* C1 (as amended): when the order-number check of a POST runs without a
\* database error and finds exactly one row with the body's ord_num, the
\* answer is 303 to /customers/{id}/orders/{ord_num}, nothing is inserted and
\* the orders table is unchanged; when it finds none or several, the handler
\* goes on to the INSERT.
C1_DuplicateRedirects ==
    [][\A c \in Clients :
          (Leaves(c, "ordNumCheck") /\ ~req'[c].dbError) =>
             LET ord_num == Field(req[c].body, "ord_num") IN
             IF CountOrdNum(orders, ord_num) = 1
             THEN /\ req'[c].pc = "done"
                  /\ req'[c].status = 303
                  /\ req'[c].location = OrderResource(req[c].id, ord_num)
                  /\ "insert" \notin req'[c].stmts
                  /\ orders' = orders
             ELSE /\ req'[c].pc = "insert"
                  /\ req'[c].status = 0]_vars

\* C1 witness: after an INSERT has added a third row, a POST of an order
\* number that one row carries is answered 303 without inserting.
C1_Witness ==
    \E c \in Clients :
        /\ req[c].route = "postOrder"
        /\ req[c].pc = "done"
        /\ req[c].status = 303
        /\ "insert" \notin req[c].stmts
        /\ Len(orders) = 3
        /\ CountOrdNum(orders, Field(req[c].body, "ord_num")) = 1

\* C1 as stated: whenever a valid POST is answered (no database error) while
\* a row with the body's ord_num exists, the answer is 303 to the order's
\* resource and the orders table is unchanged.
C1_Original ==
    [][\A c \in Clients :
          ( /\ req[c].route = "postOrder"
            /\ req[c].pc \notin Finished
            /\ req'[c].pc = "done"
            /\ ~req'[c].dbError
            /\ CountOrdNum(orders, Field(req[c].body, "ord_num")) >= 1 ) =>
             /\ req'[c].status = 303
             /\ req'[c].location = OrderResource(req[c].id, Field(req[c].body, "ord_num"))
             /\ orders' = orders]_vars

\* C2 as stated: no two rows of the orders table have the same ord_num.
C2_UniqueOrdNum ==
    \A i, j \in DOMAIN orders : i # j => orders[i].ord_num # orders[j].ord_num

\* C3: a PUT, PATCH or DELETE whose existence check found no row is answered
\* 404 and has issued nothing but that check: no UPDATE, no DELETE.
C3_MissingOrderNotFound ==
    \A c \in Clients :
        ( /\ req[c].route \in MutatingRoutes
          /\ "count_order" \in req[c].stmts
          /\ req[c].results = 0 ) =>
           /\ req[c].pc = "done"
           /\ req[c].status = 404
           /\ req[c].stmts = {"count_order"}

\* C3 witness: a PATCH of an order the customer does not have, answered 404.
C3_Witness ==
    \E c \in Clients :
        /\ req[c].route = "patchOrder"
        /\ req[c].order_num = N200102
        /\ req[c].results = 0
        /\ req[c].status = 404

\* C4: a valid POST for a customer code that no customer row carries never
\* reaches the order-number check or the INSERT, and is answered 404 unless
\* a database error ended it.
C4_MissingCustomerNotFound ==
    \A c \in Clients :
        ( /\ req[c].route = "postOrder"
          /\ ValidationErrors(req[c]) = <<>>
          /\ \A i \in DOMAIN customer : customer[i].cust_code # req[c].id ) =>
           /\ req[c].stmts \subseteq {"count_customer"}
           /\ req[c].pc \in {"connect", "customerCheck", "done"}
           /\ (req[c].pc = "done" /\ ~req[c].dbError) => req[c].status = 404

\* C4 witness: the POST for customer C00009 answered 404.
C4_Witness ==
    \E c \in Clients :
        /\ req[c].route = "postOrder"
        /\ req[c].id = C00009
        /\ req[c].stmts = {"count_customer"}
        /\ req[c].status = 404

\* C5: a request that breaks a rule of its route is answered 400 with the
\* violations, has opened no connection and has issued no statement.
C5_RejectedBeforeDatabase ==
    \A c \in Clients :
        (req[c].route # "none" /\ ValidationErrors(req[c]) # <<>>) =>
           /\ req[c].pc = "done"
           /\ req[c].status = 400
           /\ req[c].errors = ValidationErrors(req[c])
           /\ ~req[c].conn
           /\ req[c].stmts = {}

\* C5 witness: a PATCH with one violation only, answered 400.
C5_Witness ==
    \E c \in Clients :
        /\ req[c].route = "patchOrder"
        /\ req[c].status = 400
        /\ Len(req[c].errors) = 1
        /\ ~req[c].conn

\* C6 as stated: a request in which a database call failed is answered 500
\* with the single entry {msg, value: null, param: null}.
C6_DatabaseError500 ==
    \A c \in Clients :
        req[c].dbError =>
           /\ req[c].status = 500
           /\ Len(req[c].errors) = 1
           /\ req[c].errors[1].value = Null
           /\ req[c].errors[1].param = Null

\* What C7 says of the step in which a PATCH executes its UPDATE; the value
\* written is the supplied one, trimmed or as it came.
PatchWrites(c, trimmed) ==
    /\ req'[c].pc = "done"
    /\ req'[c].status = 204
    /\ req'[c].rows = <<>> /\ req'[c].errors = <<>>
    /\ Len(orders') = Len(orders)
    /\ \A i \in DOMAIN orders :
          IF orders[i].cust_code = req[c].id /\ orders[i].ord_num = req[c].order_num
          THEN \A col \in ColumnSet :
                  orders'[i][col] =
                     IF col \notin Keys(req[c].body) THEN orders[i][col]
                     ELSE IF trimmed THEN Submitted(req[c].body, col)
                     ELSE Field(req[c].body, col)
          ELSE orders'[i] = orders[i]

PatchExecutes(c) ==
    /\ req[c].route = "patchOrder"
    /\ Leaves(c, "update")
    /\ ~req'[c].dbError
    /\ req[c].body # <<>>

\* C7 (as amended): a PATCH with a non-empty body of order fields whose
\* UPDATE executes writes, in every row of that customer and order number,
\* exactly the columns the body names, each with the supplied value after
\* the trimming of agent_code and ord_description; every other column and
\* every other row stays, and the answer is 204 with an empty body.
C7_PatchWritesBodyKeys ==
    [][\A c \in Clients :
          PatchExecutes(c) => PatchWrites(c, TRUE)]_vars

\* C7 witness: the PATCH of ord_description " up " answered 204, the row of
\* the order now carrying "up".
C7_Witness ==
    \E c \in Clients :
        /\ req[c].route = "patchOrder"
        /\ req[c].body = PatchDescription
        /\ req[c].status = 204
        /\ \E i \in DOMAIN orders :
              /\ orders[i].cust_code = req[c].id
              /\ orders[i].ord_num = req[c].order_num
              /\ orders[i].ord_description = <<"u", "p">>

\* C7 as stated: each named column is set to the value as supplied.
C7_Original ==
    [][\A c \in Clients :
          PatchExecutes(c) => PatchWrites(c, FALSE)]_vars

\* C8 as stated: when a POST inserts an order whose ord_num no row carried,
\* the GET of /customers/{id}/orders/{ord_num} returns one row, with the
\* customer's code and the six submitted values (trimmed fields trimmed).
C8_RoundTrip ==
    [][\A c \in Clients :
          ( /\ Leaves(c, "insert")
            /\ req'[c].status = 303
            /\ CountOrdNum(orders, Field(req[c].body, "ord_num")) = 0 ) =>
             LET got == SelectOrder(orders', req[c].id, Field(req[c].body, "ord_num")) IN
             /\ Len(got) = 1
             /\ got[1].cust_code = req[c].id
             /\ \A key \in OrderFields : got[1][key] = Submitted(req[c].body, key)]_vars

\* An optional sign, then digits with at most one '.', ending in a digit.
SignedDecimal(str) ==
    LET unsigned == IF str # <<>> /\ str[1] \in {"+", "-"} THEN Tail(str) ELSE str IN
    /\ unsigned # <<>>
    /\ unsigned[Len(unsigned)] \in Digits
    /\ \A i \in DOMAIN unsigned : unsigned[i] \in Digits \cup {"."}
    /\ Cardinality({i \in DOMAIN unsigned : unsigned[i] = "."}) <= 1

\* C9 (as amended): an order route whose order number is not an optionally
\* signed decimal numeral is answered 400, naming order_num, without
\* reaching the database; an order number of that form passes the rule, so
\* GET and DELETE with a 6-character id are not answered 400.
C9_NonNumericOrderNum400 ==
    \A c \in Clients :
        req[c].route \in OrderRoutes =>
           /\ ~SignedDecimal(req[c].order_num) =>
                 /\ req[c].pc = "done"
                 /\ req[c].status = 400
                 /\ \E i \in DOMAIN req[c].errors : req[c].errors[i].param = "order_num"
                 /\ ~req[c].conn
                 /\ req[c].stmts = {}
           /\ ( /\ SignedDecimal(req[c].order_num)
                /\ Len(req[c].id) = 6
                /\ req[c].route \in {"getOrder", "deleteOrder"} ) => req[c].status # 400

\* C9 witness: GET of order number 20010a answered 400.
C9_Witness ==
    \E c \in Clients :
        /\ req[c].route = "getOrder"
        /\ req[c].order_num = N20010a
        /\ req[c].status = 400
        /\ ~req[c].conn

\* C9 as stated: an order number with a non-digit character is answered 400
\* and the database is not reached.
C9_Original ==
    \A c \in Clients :
        ( /\ req[c].route \in OrderRoutes
          /\ \E i \in DOMAIN req[c].order_num : req[c].order_num[i] \notin Digits ) =>
           /\ req[c].pc = "done"
           /\ req[c].status = 400
           /\ ~req[c].conn

\* C10 as stated: when the UPDATE or DELETE of a request executes, the answer
\* is 204 if a row of that customer and order number exists at that moment,
\* and 404 if none does.
C10_MutationNeedsRow ==
    [][\A c \in Clients :
          ( /\ req[c].route \in MutatingRoutes
            /\ req[c].pc \in {"update", "delete"}
            /\ req'[c].pc = "done"
            /\ ~req'[c].dbError ) =>
             req'[c].status =
                IF CountOrder(orders, req[c].id, req[c].order_num) >= 1 THEN 204 ELSE 404]_vars

\* C11 as stated: whenever a POST answers 303, on the duplicate branch or
\* after the INSERT, the orders table then holds a row with the body's
\* ord_num and the request's id, so that the GET of the redirect target
\* /customers/{id}/orders/{ord_num} returns a non-empty array; also when the
\* order that carries the ord_num belongs to another customer.
C11_RedirectTargetExists ==
    [][\A c \in Clients :
          ( /\ req[c].route = "postOrder"
            /\ req[c].pc \in {"ordNumCheck", "insert"}
            /\ req'[c].pc = "done"
            /\ req'[c].status = 303 ) =>
             LET ord_num == Field(req[c].body, "ord_num") IN
             /\ req'[c].location = OrderResource(req[c].id, ord_num)
             /\ \E i \in DOMAIN orders' :
                   /\ orders'[i].ord_num = ord_num
                   /\ orders'[i].cust_code = req[c].id
             /\ SelectOrder(orders', req[c].id, ord_num) # <<>>]_vars

=============================================================================
